---- MODULE Spec2Model ----
(***************************************************************************)
(* The double ended queue of nautilus_trader/core/deque.c: a header with   *)
(* head and tail pointers over a doubly linked chain of malloc'ed nodes.   *)
(* One action per function of deque.h.  Memory is a finite pool of node    *)
(* addresses; malloc hands out any address that is not allocated, or NULL. *)
(***************************************************************************)
EXTENDS Integers, Sequences, FiniteSets, TLC

\* Bounds of the model.
MaxNodes == 3
MaxVal == 2
MaxOps == 5

\* The null pointer.
NULL == 0

\* Addresses malloc can return for a struct node_struct.
Nodes == 1..MaxNodes

\* deque_val_type values the callers pass.
Vals == 1..MaxVal

VARIABLES
    hdr,        \* the deque_type block: "none" (deque_alloc not called yet),
                \* "null" (deque_alloc returned NULL), "live", "freed"
    head,       \* d->head
    tail,       \* d->tail
    mem,        \* node memory: address -> [next, prev, val]
    allocated,  \* node addresses malloc'ed and not yet free'd
    proc,       \* the process: "running", "aborted" (assert), "crashed" (trap)
    last,       \* the last call and what it gave back to the caller
    \* Observers: they record the calls made, the program never reads them.
    watch,      \* which of the observers below records: "count" (pushes and
                \* pops), "fifo", "lifo" or "mirror" (twin); fixed by the
                \* initial state
    model,      \* the reference sequence the same calls build
    pushes,     \* pushes that returned
    pops,       \* pops of an element that returned
    fifo,       \* the push_back calls since the deque was empty and the
                \* pop_front calls after them
    lifo,       \* the latest run of pushes at one end and the pops at that
                \* end after it
    twin        \* a second deque, on which every call is made at the other
                \* end: its head, tail, nodes, allocation, last return value

vars == <<hdr, head, tail, mem, allocated, proc, last, watch, model, pushes, pops, fifo, lifo, twin>>

\* The variables of the program, and the observers.
prog == <<hdr, head, tail, mem, allocated, proc>>
obs == <<watch, model, pushes, pops, fifo, lifo, twin>>

\* struct node_struct
Node(nx, pv, v) == [next |-> nx, prev |-> pv, val |-> v]

\* A block that is not allocated.  Its contents are indeterminate; no function
\* of deque.c reads a node before writing its three fields or after freeing it,
\* so the model keeps one pattern for them (val 0 is no value a caller pushes).
FreeBlock == Node(NULL, NULL, 0)

\* What a call gave back: out is "void", "value", "ptr", "null", or, for the
\* outcomes the C code has no result for, "abort" (assert fired), "trap" (the
\* absent node was dereferenced and the access faulted), "unspecified" (the
\* dereference did not fault and an unspecified value came back).
Result(op, out, v) == [op |-> op, out |-> out, val |-> v]

\* The values met following next from node h up to node t (at most k nodes).
RECURSIVE ChainVals(_, _, _, _)
ChainVals(m, h, t, k) ==
    IF h = NULL \/ k = 0 THEN <<>>
    ELSE IF h = t THEN <<m[h].val>>
    ELSE <<m[h].val>> \o ChainVals(m, m[h].next, t, k - 1)

\* The deque's contents front to back.
Contents == ChainVals(mem, head, tail, MaxNodes + 1)

\* malloc(sizeof(struct node_struct)): a block that is not in use, or NULL.
Malloc == (Nodes \ allocated) \cup {NULL}

\* A call on the deque is made by a running process on a deque it created
\* and has not destroyed.
Callable == hdr = "live" /\ proc = "running"

\* The reference deque: a sequence, front first.
ModelPush(q, end, v) == IF end = "front" THEN <<v>> \o q ELSE Append(q, v)

ModelPop(q, end) ==
    IF q = <<>> THEN <<>>
    ELSE IF end = "front" THEN Tail(q) ELSE SubSeq(q, 1, Len(q) - 1)

\* The queue observer: the values pushed at the back since the deque was
\* last empty, and what the pops at the front that followed returned.
\* Any other push or pop ends the observation.
FifoOff == [on |-> FALSE, pushed |-> <<>>, popped |-> <<>>]

FifoRun(pu, po) == [on |-> TRUE, pushed |-> pu, popped |-> po]

FifoPush(f, end, v, wasEmpty) ==
    IF end # "back" THEN FifoOff
    ELSE IF wasEmpty THEN FifoRun(<<v>>, <<>>)
    ELSE IF f.on /\ f.popped = <<>> THEN FifoRun(Append(f.pushed, v), <<>>)
    ELSE FifoOff

FifoPop(f, end, r) ==
    IF end = "front" /\ f.on /\ Len(f.popped) < Len(f.pushed)
    THEN FifoRun(f.pushed, Append(f.popped, r))
    ELSE FifoOff

\* The stack observer: the latest run of consecutive pushes at one end, the
\* contents read before each of them, and what the pops at that end that
\* followed returned.  A push after a pop, or at the other end, starts a new
\* run; a pop at the other end, or one more pop than pushes, ends it.
LifoOff == [end |-> "none", before |-> <<>>, pushed |-> <<>>, popped |-> <<>>]

LifoPush(l, end, v, c) ==
    IF l.end = end /\ l.popped = <<>>
    THEN [end |-> end, before |-> Append(l.before, c),
          pushed |-> Append(l.pushed, v), popped |-> <<>>]
    ELSE [end |-> end, before |-> <<c>>, pushed |-> <<v>>, popped |-> <<>>]

LifoPop(l, end, r) ==
    IF l.end = end /\ Len(l.popped) < Len(l.pushed)
    THEN [l EXCEPT !.popped = Append(@, r)]
    ELSE LifoOff

\* The part of the state the link updates work on.
Links(h, t, m) == [head |-> h, tail |-> t, mem |-> m]

\* The twin deque: links s, allocated nodes al, last return value r.
Twin(s, al, r) ==
    [head |-> s.head, tail |-> s.tail, mem |-> s.mem, allocated |-> al, ret |-> r]

\* Before deque_alloc is called.
Start ==
    /\ hdr = "none"
    /\ head \in Nodes \cup {NULL}      \* the header block is not initialised
    /\ tail \in Nodes \cup {NULL}
    /\ mem = [a \in Nodes |-> FreeBlock]
    /\ allocated = {}
    /\ proc = "running"
    /\ last = Result("none", "void", 0)
    /\ model = <<>>
    /\ pushes = 0
    /\ pops = 0
    /\ fifo = FifoOff
    /\ lifo = LifoOff
    /\ twin = Twin(Links(NULL, NULL, [a \in Nodes |-> FreeBlock]), {}, 0)

Init == watch = "count" /\ Start

InitFifo == watch = "fifo" /\ Start

InitLifo == watch = "lifo" /\ Start

InitMirror == watch = "mirror" /\ Start

\* deque_alloc without line 19: the new header keeps what the block held.
deque_alloc_uninit(ok) ==
    /\ hdr = "none" /\ proc = "running"
    /\ hdr' = IF ok THEN "live" ELSE "null"
    /\ last' = Result("deque_alloc", IF ok THEN "ptr" ELSE "null", 0)
    /\ UNCHANGED <<head, tail, mem, allocated, proc>>
    /\ UNCHANGED obs

\* deque_alloc with malloc's answer ok (TRUE: a block, FALSE: NULL).
deque_alloc_with(ok) ==
    /\ hdr = "none" /\ proc = "running"
    /\ IF ok
       THEN /\ hdr' = "live"
            /\ head' = NULL
            /\ tail' = NULL
            /\ last' = Result("deque_alloc", "ptr", 0)
       ELSE /\ hdr' = "null"
            /\ UNCHANGED <<head, tail>>
            /\ last' = Result("deque_alloc", "null", 0)
    /\ UNCHANGED <<mem, allocated, proc>>
    /\ UNCHANGED obs

deque_alloc == \E ok \in BOOLEAN : deque_alloc_with(ok)

\* deque_free: free(d), nothing else.
deque_free ==
    /\ Callable
    /\ hdr' = "freed"
    /\ last' = Result("deque_free", "void", 0)
    /\ UNCHANGED <<head, tail, mem, allocated, proc>>
    /\ UNCHANGED obs

\* deque_is_empty's return value.
IsEmpty == head = NULL

deque_is_empty ==
    /\ Callable
    /\ last' = Result("deque_is_empty", "value", IF IsEmpty THEN 1 ELSE 0)
    /\ UNCHANGED prog
    /\ twin' = IF watch = "mirror"
               THEN [twin EXCEPT !.ret = IF twin.head = NULL THEN 1 ELSE 0]
               ELSE twin
    /\ UNCHANGED <<watch, model, pushes, pops, fifo, lifo>>

\* deque_push_front with d->head->next = n in place of line 40.
PushFrontLinkWritesNext(s, v, n) ==
    LET m1 == [s.mem EXCEPT ![n] = Node(s.head, NULL, v)]
    IN  IF s.tail = NULL
        THEN Links(n, n, m1)
        ELSE Links(n, s.tail, [m1 EXCEPT ![s.head].next = n])

\* deque_push_front without the test of line 37: always d->head = d->tail = n.
PushFrontLinkSetsTail(s, v, n) ==
    Links(n, n, [s.mem EXCEPT ![n] = Node(s.head, NULL, v)])

\* deque_push_front with n->next = NULL in place of line 35.
PushFrontLinkNoNext(s, v, n) ==
    LET m1 == [s.mem EXCEPT ![n] = Node(NULL, NULL, v)]
    IN  IF s.tail = NULL
        THEN Links(n, n, m1)
        ELSE Links(n, s.tail, [m1 EXCEPT ![s.head].prev = n])

\* deque_push_front after the assert: fill node n and link it before head.
PushFrontLink(s, v, n) ==
    LET m1 == [s.mem EXCEPT ![n] = Node(s.head, NULL, v)]
    IN  IF s.tail = NULL
        THEN Links(n, n, m1)
        ELSE Links(n, s.tail, [m1 EXCEPT ![s.head].prev = n])

\* deque_push_back without line 54: the old tail is not linked to n.
PushBackLinkNoNext(s, v, n) ==
    LET m1 == [s.mem EXCEPT ![n] = Node(NULL, s.tail, v)]
    IN  IF s.head = NULL
        THEN Links(n, n, m1)
        ELSE Links(s.head, n, m1)

\* deque_push_back with d->head = n in place of line 55.
PushBackLinkSetsHead(s, v, n) ==
    LET m1 == [s.mem EXCEPT ![n] = Node(NULL, s.tail, v)]
    IN  IF s.head = NULL
        THEN Links(n, n, m1)
        ELSE Links(n, s.tail, [m1 EXCEPT ![s.tail].next = n])

\* deque_push_back after the assert: fill node n and link it after tail.
PushBackLink(s, v, n) ==
    LET m1 == [s.mem EXCEPT ![n] = Node(NULL, s.tail, v)]
    IN  IF s.head = NULL
        THEN Links(n, n, m1)
        ELSE Links(s.head, n, [m1 EXCEPT ![s.tail].next = n])

\* deque_pop_front without the test of line 62: always d->head = n->next.
PopFrontUnlinkNoLastCase(s) == Links(s.mem[s.head].next, s.tail, s.mem)

\* deque_pop_front with d->head = NULL only in place of line 63.
PopFrontUnlinkKeepsTail(s) ==
    IF s.head = s.tail
    THEN Links(NULL, s.tail, s.mem)
    ELSE Links(s.mem[s.head].next, s.tail, s.mem)

\* deque_pop_front with d->head = n->prev in place of line 65.
PopFrontUnlinkWrongLink(s) ==
    IF s.head = s.tail
    THEN Links(NULL, NULL, s.mem)
    ELSE Links(s.mem[s.head].prev, s.tail, s.mem)

\* deque_pop_front between reading the value and free(n).
PopFrontUnlink(s) ==
    IF s.head = s.tail
    THEN Links(NULL, NULL, s.mem)
    ELSE Links(s.mem[s.head].next, s.tail, s.mem)

\* deque_pop_back with d->tail = n->next in place of line 76.
PopBackUnlinkTakesNext(s) ==
    IF s.head = s.tail
    THEN Links(NULL, NULL, s.mem)
    ELSE Links(s.head, s.mem[s.tail].next, s.mem)

\* deque_pop_back without the test of line 73: always d->tail = n->prev.
PopBackUnlinkNoLastCase(s) == Links(s.head, s.mem[s.tail].prev, s.mem)

\* deque_pop_back between reading the value and free(n).
PopBackUnlink(s) ==
    IF s.head = s.tail
    THEN Links(NULL, NULL, s.mem)
    ELSE Links(s.head, s.mem[s.tail].prev, s.mem)

\* The nodes whose fields a call reads or writes, or that it frees.
\* deque_push_front: n->val, n->next, n->prev and, if tail != NULL, d->head->prev.
PushFrontTouches(s, n) == {n} \cup (IF s.tail = NULL THEN {} ELSE {s.head})

\* deque_push_back: n->val, n->prev, n->next and, if head != NULL, d->tail->next.
PushBackTouches(s, n) == {n} \cup (IF s.head = NULL THEN {} ELSE {s.tail})

\* deque_pop_front: d->head->val, n->next if head != tail, free(n), n the head.
PopFrontTouches(s) == {s.head}

\* deque_pop_back: d->tail->val, n->prev if head != tail, free(n), n the tail.
PopBackTouches(s) == {s.tail}

\* deque_peek_front: d->head->val; deque_peek_back: d->tail->val.
PeekFrontTouches(s) == {s.head}

PeekBackTouches(s) == {s.tail}

\* The call at the other end on the twin: a push at `end` of the deque is a
\* push at the other end of the twin.  The twin's malloc gives the answers
\* the deque's malloc gives, n2 is the block it answered.
TwinPush(t, end, v, n2) ==
    LET s == Links(t.head, t.tail, t.mem)
        r == IF end = "front" THEN PushBackLink(s, v, n2) ELSE PushFrontLink(s, v, n2)
    IN  Twin(r, t.allocated \cup {n2}, 0)

\* A pop at `end` of the deque is a pop at the other end of the twin; -1
\* stands for no value, when the twin has no node there.
TwinPop(t, end) ==
    LET s == Links(t.head, t.tail, t.mem)
        n == IF end = "front" THEN t.tail ELSE t.head
        r == IF end = "front" THEN PopBackUnlink(s) ELSE PopFrontUnlink(s)
    IN  IF n = NULL
        THEN [t EXCEPT !.ret = -1]
        ELSE Twin(Links(r.head, r.tail, [r.mem EXCEPT ![n] = FreeBlock]),
                  t.allocated \ {n}, t.mem[n].val)

\* A peek at `end` of the deque is a peek at the other end of the twin.
TwinPeek(t, end) ==
    LET n == IF end = "front" THEN t.tail ELSE t.head
    IN  [t EXCEPT !.ret = IF n = NULL THEN -1 ELSE t.mem[n].val]

\* The assert placed after d->head = n: NULL is stored before the abort.
AssertFailsAfterStore(op) ==
    /\ proc' = "aborted"
    /\ last' = Result(op, "abort", 0)
    /\ head' = NULL
    /\ UNCHANGED <<hdr, tail, mem, allocated>>
    /\ UNCHANGED obs

\* assert(n != NULL) fails: the process is aborted inside the call.
AssertFails(op) ==
    /\ proc' = "aborted"
    /\ last' = Result(op, "abort", 0)
    /\ UNCHANGED <<hdr, head, tail, mem, allocated>>
    /\ UNCHANGED obs

\* A push at an end whose malloc answered n (a free block or NULL), with s
\* the links after the link updates.
Push(op, end, s, v, n) ==
    /\ Callable
    /\ pushes < MaxOps
    /\ n \in Malloc
    /\ IF n = NULL
       THEN AssertFails(op)
       ELSE /\ head' = s.head
            /\ tail' = s.tail
            /\ mem' = s.mem
            /\ allocated' = allocated \cup {n}
            /\ last' = Result(op, "void", 0)
            /\ UNCHANGED <<hdr, proc>>
            /\ model' = ModelPush(model, end, v)
            /\ pushes' = IF watch = "count" THEN pushes + 1 ELSE pushes
            /\ fifo' = IF watch = "fifo" THEN FifoPush(fifo, end, v, IsEmpty) ELSE fifo
            /\ lifo' = IF watch = "lifo" THEN LifoPush(lifo, end, v, Contents) ELSE lifo
            /\ twin' = IF watch = "mirror" THEN TwinPush(twin, end, v, n) ELSE twin
            /\ UNCHANGED <<watch, pops>>

deque_push_front_n(v, n) ==
    Push("deque_push_front", "front", PushFrontLink(Links(head, tail, mem), v, n), v, n)

deque_push_back_n(v, n) ==
    Push("deque_push_back", "back", PushBackLink(Links(head, tail, mem), v, n), v, n)

deque_push_front == \E v \in Vals : \E n \in Malloc : deque_push_front_n(v, n)

deque_push_back == \E v \in Vals : \E n \in Malloc : deque_push_back_n(v, n)

\* d->head->val or d->tail->val with the pointer NULL: undefined behaviour.
\* Either the access faults and the process dies, or it does not and some
\* value comes back; the code that follows finds head == tail and frees NULL.
NullDeref(op) ==
    \/ /\ proc' = "crashed"
       /\ last' = Result(op, "trap", 0)
       /\ UNCHANGED <<hdr, head, tail, mem, allocated>>
       /\ UNCHANGED obs
    \/ \E g \in Vals :
          /\ last' = Result(op, "unspecified", g)
          /\ UNCHANGED prog
          /\ UNCHANGED obs

\* A pop without free(n) (lines 66, 77): the unlinked node stays allocated.
PopNoFree(op, end, n, s) ==
    /\ Callable
    /\ IF n = NULL
       THEN NullDeref(op)
       ELSE /\ head' = s.head
            /\ tail' = s.tail
            /\ mem' = s.mem
            /\ allocated' = allocated
            /\ last' = Result(op, "value", mem[n].val)
            /\ UNCHANGED <<hdr, proc>>
            /\ model' = ModelPop(model, end)
            /\ pops' = IF watch = "count" THEN pops + 1 ELSE pops
            /\ fifo' = IF watch = "fifo" THEN FifoPop(fifo, end, mem[n].val) ELSE fifo
            /\ lifo' = IF watch = "lifo" THEN LifoPop(lifo, end, mem[n].val) ELSE lifo
            /\ twin' = IF watch = "mirror" THEN TwinPop(twin, end) ELSE twin
            /\ UNCHANGED <<watch, pushes>>

\* A pop at an end of node n, with s the links after the unlink.
Pop(op, end, n, s) ==
    /\ Callable
    /\ IF n = NULL
       THEN NullDeref(op)
       ELSE /\ head' = s.head
            /\ tail' = s.tail
            /\ mem' = [s.mem EXCEPT ![n] = FreeBlock]
            /\ allocated' = allocated \ {n}
            /\ last' = Result(op, "value", mem[n].val)
            /\ UNCHANGED <<hdr, proc>>
            /\ model' = ModelPop(model, end)
            /\ pops' = IF watch = "count" THEN pops + 1 ELSE pops
            /\ fifo' = IF watch = "fifo" THEN FifoPop(fifo, end, mem[n].val) ELSE fifo
            /\ lifo' = IF watch = "lifo" THEN LifoPop(lifo, end, mem[n].val) ELSE lifo
            /\ twin' = IF watch = "mirror" THEN TwinPop(twin, end) ELSE twin
            /\ UNCHANGED <<watch, pushes>>

deque_pop_front ==
    Pop("deque_pop_front", "front", head, PopFrontUnlink(Links(head, tail, mem)))

deque_pop_back ==
    Pop("deque_pop_back", "back", tail, PopBackUnlink(Links(head, tail, mem)))

\* A peek at an end, at node n.
Peek(op, end, n) ==
    /\ Callable
    /\ IF n = NULL
       THEN NullDeref(op)
       ELSE /\ last' = Result(op, "value", mem[n].val)
            /\ UNCHANGED prog
            /\ twin' = IF watch = "mirror" THEN TwinPeek(twin, end) ELSE twin
            /\ UNCHANGED <<watch, model, pushes, pops, fifo, lifo>>

deque_peek_front == Peek("deque_peek_front", "front", head)

\* deque_peek_back written as deque_pop_back.
deque_peek_back_pops ==
    Pop("deque_peek_back", "back", tail, PopBackUnlink(Links(head, tail, mem)))

deque_peek_back == Peek("deque_peek_back", "back", tail)

Next ==
    \/ deque_alloc
    \/ deque_free
    \/ deque_is_empty
    \/ deque_push_front
    \/ deque_push_back
    \/ deque_pop_front
    \/ deque_pop_back
    \/ deque_peek_front
    \/ deque_peek_back

Spec == Init /\ [][Next]_vars

SpecFifo == InitFifo /\ [][Next]_vars

SpecLifo == InitLifo /\ [][Next]_vars

SpecMirror == InitMirror /\ [][Next]_vars

\* The values met following prev from node t back to node h (at most k
\* nodes), last met first.
RECURSIVE ChainValsBack(_, _, _, _)
ChainValsBack(m, t, h, k) ==
    IF t = NULL \/ k = 0 THEN <<>>
    ELSE IF t = h THEN <<m[t].val>>
    ELSE ChainValsBack(m, m[t].prev, h, k - 1) \o <<m[t].val>>

\* The deque's contents front to back, read from the back.
ContentsBack == ChainValsBack(mem, tail, head, MaxNodes + 1)

\* The nodes met following next from node h up to node t (at most k nodes).
RECURSIVE ChainNodes(_, _, _, _)
ChainNodes(m, h, t, k) ==
    IF h = NULL \/ k = 0 THEN <<>>
    ELSE IF h = t THEN <<h>>
    ELSE <<h>> \o ChainNodes(m, m[h].next, t, k - 1)

\* The nodes met following prev from node t back to node h (at most k
\* nodes), last met first.
RECURSIVE ChainNodesBack(_, _, _, _)
ChainNodesBack(m, t, h, k) ==
    IF t = NULL \/ k = 0 THEN <<>>
    ELSE IF t = h THEN <<t>>
    ELSE ChainNodesBack(m, m[t].prev, h, k - 1) \o <<t>>

\* The deque's nodes front to back, read from the front and from the back.
Chain == ChainNodes(mem, head, tail, MaxNodes + 1)

ChainBack == ChainNodesBack(mem, tail, head, MaxNodes + 1)

\* The elements of a sequence.
Range(q) == {q[i] : i \in 1..Len(q)}

\* A sequence back to front.
Reverse(q) == [i \in 1..Len(q) |-> q[Len(q) + 1 - i]]

\* The twin's contents front to back.
TwinContents == ChainVals(twin.mem, twin.head, twin.tail, MaxNodes + 1)

----------------------------------------------------------------------------
\* C1: on every run of pushes and pops (pops of a non-empty deque) the linked
\* list agrees with the reference sequence at every step: a pop or peek at
\* the front returns the first element of the sequence, one at the back the
\* last, and the values read along next from head to tail are the sequence.
C1_RefinesSequence ==
    [][/\ (deque_pop_front /\ head # NULL)
            => (model # <<>> /\ last'.out = "value" /\ last'.val = model[1])
       /\ (deque_pop_back /\ tail # NULL)
            => (model # <<>> /\ last'.out = "value" /\ last'.val = model[Len(model)])
       /\ (deque_peek_front /\ head # NULL)
            => (model # <<>> /\ last'.out = "value" /\ last'.val = model[1])
       /\ (deque_peek_back /\ tail # NULL)
            => (model # <<>> /\ last'.out = "value" /\ last'.val = model[Len(model)])
       /\ hdr' = "live" => Contents' = model'
      ]_vars

C1_Witness ==
    /\ hdr = "live"
    /\ last.op = "deque_pop_back"
    /\ pushes >= 3
    /\ pops = 2
    /\ Len(model) >= 2
    /\ model[1] # model[2]
    /\ Contents = model

\* C2: a pop or peek of an empty deque signals EmptyDequeAccess to the caller
\* and leaves the deque as it was; it neither dereferences the absent node
\* nor returns an unspecified value.
C2_EmptyAccessSignalled ==
    [][((deque_pop_front \/ deque_pop_back \/ deque_peek_front \/ deque_peek_back)
            /\ head = NULL /\ tail = NULL)
          => /\ last'.out = "EmptyDequeAccess"
             /\ proc' = "running"
             /\ UNCHANGED <<hdr, head, tail, mem, allocated>>
      ]_vars

\* C3: from an empty deque, after push_back of v1..vn and nothing else, the
\* pop_front calls that follow return v1, v2, ... in that order, and the n-th
\* leaves the deque empty.
C3_Fifo ==
    fifo.on =>
        /\ Len(fifo.popped) <= Len(fifo.pushed)
        /\ fifo.popped = SubSeq(fifo.pushed, 1, Len(fifo.popped))
        /\ (Len(fifo.popped) = Len(fifo.pushed) => (IsEmpty /\ Contents = <<>>))

C3_Witness ==
    /\ fifo.on
    /\ Len(fifo.pushed) = 3
    /\ fifo.popped = fifo.pushed
    /\ fifo.pushed[1] # fifo.pushed[2]
    /\ last.op = "deque_pop_front"

\* C4: after n pushes of v1..vn at one end of a deque in any reachable state,
\* n pops at that end return vn, ..., v1 in that order and the contents are
\* again what they were before the pushes.
C4_Lifo ==
    lifo.end # "none" =>
        LET k == Len(lifo.pushed)
            j == Len(lifo.popped)
        IN  /\ j <= k
            /\ \A i \in 1..j : lifo.popped[i] = lifo.pushed[k - i + 1]
            /\ (j >= 1 => Contents = lifo.before[k - j + 1])

C4_Witness ==
    /\ lifo.end = "front"
    /\ Len(lifo.pushed) = 2
    /\ Len(lifo.popped) = 2
    /\ lifo.pushed[1] # lifo.pushed[2]
    /\ lifo.before[1] # <<>>
    /\ last.op = "deque_pop_front"

\* C5: deque_is_empty answers true exactly when as many pops as pushes have
\* returned: false after any push, true again after the pop, at either end,
\* that removes the last element.
C5_EmptyIffBalanced ==
    hdr = "live" => (IsEmpty <=> pushes = pops)

C5_Witness ==
    /\ hdr = "live"
    /\ last.op = "deque_pop_back"
    /\ pushes >= 2
    /\ pushes = pops
    /\ IsEmpty

\* C6: deque_alloc returns NULL when malloc fails, and otherwise a deque whose
\* head and tail are both NULL, on which deque_is_empty is true.
C6_AllocNullOrEmpty ==
    last.op = "deque_alloc" =>
        \/ hdr = "null" /\ last.out = "null"
        \/ hdr = "live" /\ last.out = "ptr" /\ head = NULL /\ tail = NULL /\ IsEmpty

C6_Witness ==
    /\ last.op = "deque_alloc"
    /\ hdr = "live"
    /\ IsEmpty

\* C7: deque_peek_front and deque_peek_back on a non-empty deque, and
\* deque_is_empty on any deque, change no pointer, no node and no allocation:
\* the same peek again returns the same value, and deque_is_empty and the
\* number of elements are as before.
C7_ReadOnly ==
    [][/\ ((deque_peek_front \/ deque_peek_back) /\ head # NULL /\ tail # NULL)
            \/ deque_is_empty
          => /\ UNCHANGED <<hdr, head, tail, mem, allocated, proc>>
             /\ (head' = NULL) <=> (head = NULL)
             /\ Len(Contents') = Len(Contents)
       /\ (deque_peek_front /\ head # NULL) => last'.val = mem'[head'].val
       /\ (deque_peek_back /\ tail # NULL) => last'.val = mem'[tail'].val
      ]_vars

C7_Witness ==
    /\ hdr = "live"
    /\ last.op = "deque_peek_back"
    /\ last.out = "value"
    /\ Len(Contents) >= 2
    /\ last.val = Contents[Len(Contents)]
    /\ Contents[1] # last.val

\* C8: a push whose node allocation fails gives its caller an
\* AllocationFailure result and the process goes on running.
C8_AllocFailureRecoverable ==
    [][(\E v \in Vals : deque_push_front_n(v, NULL) \/ deque_push_back_n(v, NULL))
          => /\ proc' = "running"
             /\ last'.out = "AllocationFailure"
      ]_vars

\* C9: a push whose node allocation fails changes neither head, tail nor any
\* node; a push or pop that returns has made all its link updates: the chain
\* read along next from head and the chain read along prev from tail both
\* hold the new contents, the new node is allocated and the popped one freed.
C9_NoPartialMutation ==
    [][/\ (\E v \in Vals : deque_push_front_n(v, NULL) \/ deque_push_back_n(v, NULL))
            => UNCHANGED <<hdr, head, tail, mem, allocated>>
       /\ \A v \in Vals : \A n \in Nodes :
            /\ deque_push_front_n(v, n)
                 => /\ head' = n /\ mem'[n].prev = NULL /\ n \in allocated'
                    /\ Contents' = <<v>> \o Contents
                    /\ ContentsBack' = <<v>> \o Contents
            /\ deque_push_back_n(v, n)
                 => /\ tail' = n /\ mem'[n].next = NULL /\ n \in allocated'
                    /\ Contents' = Append(Contents, v)
                    /\ ContentsBack' = Append(Contents, v)
       /\ (deque_pop_front /\ head # NULL)
            => /\ head \notin allocated'
               /\ Contents' = Tail(Contents)
               /\ ContentsBack' = Tail(Contents)
       /\ (deque_pop_back /\ tail # NULL)
            => /\ tail \notin allocated'
               /\ Contents' = SubSeq(Contents, 1, Len(Contents) - 1)
               /\ ContentsBack' = SubSeq(Contents, 1, Len(Contents) - 1)
      ]_vars

C9_Witness ==
    /\ proc = "aborted"
    /\ last.op = "deque_push_back"
    /\ last.out = "abort"
    /\ Len(Contents) = 2
    /\ Contents = model
    /\ ContentsBack = model

\* C10: after deque_free returns, no node a push allocated is still
\* allocated, however many elements the deque held.
C10_FreeReleasesNodes ==
    hdr = "freed" => allocated = {}

\* C11: whenever the deque is not empty the head node has no prev link and
\* the tail node has no next link, also right after a pop that leaves an
\* element.
C11_EndsHaveNoOuterLink ==
    hdr = "live" =>
        /\ head # NULL => mem[head].prev = NULL
        /\ tail # NULL => mem[tail].next = NULL

\* C12: head is NULL exactly when tail is NULL, so the tests of line 37
\* (tail), line 51 (head) and deque_is_empty (head) agree.
C12_HeadNullIffTailNull ==
    hdr = "live" => ((head = NULL) <=> (tail = NULL))

C12_Witness ==
    /\ hdr = "live"
    /\ last.op = "deque_pop_front"
    /\ pushes >= 2
    /\ pushes = pops
    /\ head = NULL
    /\ tail = NULL

\* C13: with N >= 1 elements, following next from head reaches tail in
\* exactly N-1 steps and meets no node twice, following prev from tail
\* reaches head meeting the same nodes in reverse, and neighbours a, b on
\* the chain have a.next = b and b.prev = a.
C13_ChainConsistent ==
    (hdr = "live" /\ model # <<>>) =>
        LET N == Len(model)
        IN  /\ Len(Chain) = N
            /\ Chain[1] = head
            /\ Chain[N] = tail
            /\ Cardinality(Range(Chain)) = N
            /\ ChainBack = Chain
            /\ \A i \in 1..(N - 1) :
                  /\ mem[Chain[i]].next = Chain[i + 1]
                  /\ mem[Chain[i + 1]].prev = Chain[i]

C13_Witness ==
    /\ hdr = "live"
    /\ Len(model) = 3
    /\ pops >= 1
    /\ Len(Chain) = 3
    /\ ChainBack = Chain

\* C14: a non-empty deque has head = tail exactly when it holds one element,
\* so a pop sets both ends to NULL exactly when it removes the last element.
C14_HeadIsTailIffOne ==
    [][/\ (hdr' = "live" /\ head' # NULL)
            => ((head' = tail') <=> (Len(model') = 1))
       /\ ((deque_pop_front \/ deque_pop_back) /\ head # NULL /\ tail # NULL)
            => ((head' = NULL /\ tail' = NULL) <=> (Len(model) = 1))
      ]_vars

C14_Witness ==
    /\ hdr = "live"
    /\ last.op = "deque_pop_back"
    /\ Len(model) = 1
    /\ head = tail
    /\ head # NULL
    /\ pops >= 2

\* C15: a push that returns allocates exactly one node, a pop of a non-empty
\* deque frees exactly one, the node that was head (pop_front) or tail
\* (pop_back); so before deque_free the allocated nodes are exactly the nodes
\* of the chain from head to tail, pushes minus pops of them.
C15_NodeAccounting ==
    [][/\ \A v \in Vals : \A n \in Nodes :
            (deque_push_front_n(v, n) \/ deque_push_back_n(v, n))
               => (n \notin allocated /\ allocated' = allocated \cup {n})
       /\ (deque_pop_front /\ head # NULL)
            => (head \in allocated /\ allocated' = allocated \ {head})
       /\ (deque_pop_back /\ tail # NULL)
            => (tail \in allocated /\ allocated' = allocated \ {tail})
       /\ hdr' = "live"
            => /\ allocated' = Range(Chain')
               /\ Cardinality(allocated') = pushes' - pops'
      ]_vars

C15_Witness ==
    /\ hdr = "live"
    /\ last.op = "deque_pop_front"
    /\ pushes = 4
    /\ pops = 2
    /\ Cardinality(allocated) = 2
    /\ allocated = Range(Chain)

\* C16: on a deque with an element, push_front leaves tail and every existing
\* node's val and next as they were, push_back leaves head and every existing
\* node's val and prev; on a deque with two or more elements pop_front leaves
\* tail and pop_back leaves head, and the remaining nodes keep their values
\* and their order.
C16_Frame ==
    [][/\ \A v \in Vals : \A n \in Nodes :
            /\ (deque_push_front_n(v, n) /\ Len(model) >= 1)
                 => /\ tail' = tail
                    /\ \A a \in allocated :
                          mem'[a].val = mem[a].val /\ mem'[a].next = mem[a].next
            /\ (deque_push_back_n(v, n) /\ Len(model) >= 1)
                 => /\ head' = head
                    /\ \A a \in allocated :
                          mem'[a].val = mem[a].val /\ mem'[a].prev = mem[a].prev
       /\ (deque_pop_front /\ Len(model) >= 2)
            => /\ tail' = tail
               /\ Chain' = Tail(Chain)
               /\ \A a \in Range(Chain') : mem'[a].val = mem[a].val
       /\ (deque_pop_back /\ Len(model) >= 2)
            => /\ head' = head
               /\ Chain' = SubSeq(Chain, 1, Len(Chain) - 1)
               /\ \A a \in Range(Chain') : mem'[a].val = mem[a].val
      ]_vars

C16_Witness ==
    /\ hdr = "live"
    /\ last.op = "deque_pop_back"
    /\ pushes = 3
    /\ pops = 1
    /\ Len(Chain) = 2
    /\ Contents[1] # Contents[2]

\* C17: when every call is made at the other end of a second deque, each pop
\* and peek returns the same value there, deque_is_empty gives the same
\* answer after every step, and the contents front to back are the reverse.
C17_Mirror ==
    hdr = "live" =>
        /\ (last.out = "value" => twin.ret = last.val)
        /\ (twin.head = NULL) <=> IsEmpty
        /\ twin.allocated = allocated
        /\ TwinContents = Reverse(Contents)

C17_Witness ==
    /\ hdr = "live"
    /\ last.op = "deque_pop_front"
    /\ last.out = "value"
    /\ twin.ret = last.val
    /\ Len(Contents) = 2
    /\ Contents[1] # Contents[2]
    /\ TwinContents = Reverse(Contents)
    /\ twin.head = tail

\* C18: no call on a live deque (pops and peeks of a non-empty one) reads or
\* writes a field of a node that is not allocated, none frees a node that is
\* not allocated, and head and tail never come to hold a freed node, so a
\* link left pointing at a freed node is never followed.
C18_NoUseAfterFree ==
    [][/\ \A v \in Vals : \A n \in Nodes :
            /\ deque_push_front_n(v, n)
                 => /\ n \notin allocated
                    /\ PushFrontTouches(Links(head, tail, mem), n) \subseteq allocated \cup {n}
            /\ deque_push_back_n(v, n)
                 => /\ n \notin allocated
                    /\ PushBackTouches(Links(head, tail, mem), n) \subseteq allocated \cup {n}
       /\ (deque_pop_front /\ head # NULL)
            => PopFrontTouches(Links(head, tail, mem)) \subseteq allocated
       /\ (deque_pop_back /\ tail # NULL)
            => PopBackTouches(Links(head, tail, mem)) \subseteq allocated
       /\ (deque_peek_front /\ head # NULL)
            => PeekFrontTouches(Links(head, tail, mem)) \subseteq allocated
       /\ (deque_peek_back /\ tail # NULL)
            => PeekBackTouches(Links(head, tail, mem)) \subseteq allocated
       /\ hdr' = "live" => {head', tail'} \subseteq allocated' \cup {NULL}
      ]_vars

C18_Witness ==
    /\ hdr = "live"
    /\ last.op = "deque_peek_front"
    /\ last.out = "value"
    /\ head # NULL
    /\ mem[head].prev # NULL
    /\ mem[head].prev \notin allocated
    /\ pops >= 1

====
